---------------------------- MODULE Spec2Model ----------------------------
(***************************************************************************)
(* A model of src/index.js: horizontalLoop (the construction of the        *)
(* looping timeline and the navigation it adds to it) and simpleFlip.      *)
(*                                                                         *)
(* Units.  Lengths are integers counting 1/100 px, and every measured      *)
(* length is a whole number of pixels (a multiple of 100), which makes     *)
(* (xPercent / 100) * width exact.  Percent offsets are integers once      *)
(* snapped.  Times are integers counting 1/20000 s, which makes a length   *)
(* divided by pixelsPerSecond (100 or 200 px/s) exact.  A JavaScript       *)
(* number is a record [fin, v]; fin = FALSE stands for NaN and +-Infinity, *)
(* which this code never turns back into a finite number.                  *)
(*                                                                         *)
(* Not modelled: config.repeat, config.paused, config.reversed and         *)
(* config.snap === false (it needs unrounded reals); an empty items array  *)
(* (items[0].offsetLeft throws); the vars passed through to the engine.    *)
(* The engine is modelled by what the code asks of it: tl.duration() is    *)
(* the latest end of the tweens put on the timeline, tl.time() is the      *)
(* playhead, progress(1) puts a timeline at its end.                       *)
(***************************************************************************)
EXTENDS Integers, Sequences, FiniteSets

VARIABLES
  items,      \* the measured elements handed to horizontalLoop
  config,     \* the config object: speed, paddingRight, snap (0 = absent)
  pc,         \* "new" before horizontalLoop has run, "built" after
  widths,     \* widths[i]
  xPercents,  \* xPercents[i]
  totalWidth, \* totalWidth
  times,      \* tl.times
  tweens,     \* per item, the set / to / fromTo / label instructions issued
  curIndex,   \* curIndex
  playhead,   \* tl.time()
  seek,       \* the tweenTo issued by the last toIndex, while it is in flight
  nexts,      \* number of next() calls made on the handle, when it saw nothing else
  rects,      \* simpleFlip: layout position of every element
  offs,       \* simpleFlip: rendered x / y transform of every element
  flipOf,     \* simpleFlip: el._flip, 0 when unset
  flips       \* simpleFlip: the timelines created so far

loopVars == <<items, config, pc, widths, xPercents, totalWidth, times, tweens,
              curIndex, playhead, seek, nexts>>
flipVars == <<rects, offs, flipOf, flips>>
vars == <<items, config, pc, widths, xPercents, totalWidth, times, tweens,
          curIndex, playhead, seek, nexts, rects, offs, flipOf, flips>>

(***************************************************************************)
(* Bounds of the model.                                                    *)
(***************************************************************************)
MaxItems == 2
MaxNavItems == 6
MaxNexts == 8
MaxFlips == 2
FlipSteps == 2

(***************************************************************************)
(* JavaScript numbers.                                                     *)
(***************************************************************************)
NaN == [fin |-> FALSE, v |-> 0]
Fin(n) == [fin |-> TRUE, v |-> n]
NAdd(a, b) == IF a.fin /\ b.fin THEN Fin(a.v + b.v) ELSE NaN
NSub(a, b) == IF a.fin /\ b.fin THEN Fin(a.v - b.v) ELSE NaN
Abs(n) == IF n < 0 THEN -n ELSE n
SetMax(S) == CHOOSE m \in S : \A n \in S : n <= m

\* Math.round(n / d) for d > 0: the nearest integer, halves towards +Infinity.
Round(n, d) == (2 * n + d) \div (2 * d)

(***************************************************************************)
(* horizontalLoop: the measurements and the values derived from them.      *)
(***************************************************************************)
length == Len(items)
startX == items[1].offsetLeft
pixelsPerSecond == (IF config.speed = 0 THEN 1 ELSE config.speed) * 100
paddingRight == config.paddingRight

\* gsap.utils.snap(config.snap || 1) applied to (n / w) * 100.
snapPercent(n, w) ==
  LET step == IF config.snap = 0 THEN 1 ELSE config.snap
  IN  IF n.fin /\ w # 0 THEN Fin(Round(100 * n.v, w * step) * step) ELSE NaN

\* widths[i] = parseFloat(gsap.getProperty(el, 'width', 'px'))
widthOf(i) == items[i].width

\* xPercents[i] = snap((x / w) * 100 + gsap.getProperty(el, 'xPercent'))
xPercentOf(i) ==
  LET w == widthOf(i)
      step == IF config.snap = 0 THEN 1 ELSE config.snap
  IN  IF w # 0
      THEN Fin(Round(100 * items[i].x + items[i].xPercent * w, w * step) * step)
      ELSE NaN

\* curX = (xPercents[i] / 100) * widths[i]
curX(i) ==
  IF xPercentOf(i).fin THEN Fin((xPercentOf(i).v * widthOf(i)) \div 100) ELSE NaN

totalWidthNoOffset ==
  NAdd(Fin(items[length].offsetLeft - startX
           + items[length].offsetWidth * items[length].scaleX),
       Fin(paddingRight))
\* totalWidth = items[length - 1].offsetLeft + (xPercents[length - 1] / 100) *
\*   widths[length - 1] - startX + offsetWidth * scaleX + paddingRight
totalWidthOf ==
  NAdd(NAdd(NSub(NAdd(Fin(items[length].offsetLeft), curX(length)), Fin(startX)),
            Fin(items[length].offsetWidth * items[length].scaleX)),
       Fin(paddingRight))

distanceToStart(i) == NSub(NAdd(Fin(items[i].offsetLeft), curX(i)), Fin(startX))
distanceToLoop(i) == NAdd(distanceToStart(i), Fin(widthOf(i) * items[i].scaleX))

\* d / pixelsPerSecond, in ticks of 1/20000 s (d counts 1/100 px).
seconds(d) == IF d.fin THEN Fin((d.v * 200) \div pixelsPerSecond) ELSE NaN

\* tl.to(item, {xPercent, duration}, 0)
toXPercent(i) == snapPercent(NSub(curX(i), distanceToLoop(i)), widthOf(i))
toDuration(i) == seconds(distanceToLoop(i))

\* .fromTo(item, {xPercent}, {xPercent: xPercents[i], duration}, position)
fromXPercent(i) ==
  snapPercent(NAdd(NSub(curX(i), distanceToLoop(i)), totalWidthOf), widthOf(i))
fromToDurationTotal(i) == seconds(totalWidthOf)
fromToDuration(i) ==
  seconds(NSub(NAdd(NSub(curX(i), distanceToLoop(i)), totalWidthOf), curX(i)))
fromToPosition(i) == seconds(distanceToLoop(i))

\* times[i] = distanceToStart / pixelsPerSecond, also the position of 'label' + i
timeOf(i) == seconds(distanceToStart(i))

\* Everything horizontalLoop hands to the timeline for item i.
tweensOf(i) ==
  [set      |-> xPercentOf(i),
   toAt     |-> 0,
   toX      |-> toXPercent(i),
   toDur    |-> toDuration(i),
   fromX    |-> fromXPercent(i),
   backX    |-> xPercentOf(i),
   backDur  |-> fromToDuration(i),
   backAt   |-> fromToPosition(i),
   label    |-> timeOf(i)]

\* tl.duration(): the latest end of a tween on the timeline.
duration ==
  SetMax({0}
    \cup {tweens[i].toDur.v : i \in {j \in 1..Len(tweens) : tweens[j].toDur.fin}}
    \cup {tweens[i].backAt.v + tweens[i].backDur.v :
            i \in {j \in 1..Len(tweens) :
                     tweens[j].backAt.fin /\ tweens[j].backDur.fin}})

horizontalLoop ==
  /\ pc = "new"
  /\ pc' = "built"
  /\ widths' = [i \in 1..length |-> widthOf(i)]
  /\ xPercents' = [i \in 1..length |-> xPercentOf(i)]
  /\ totalWidth' = totalWidthOf
  /\ tweens' = [i \in 1..length |-> tweensOf(i)]
  /\ times' = [i \in 1..length |-> timeOf(i)]
  /\ curIndex' = 0
  /\ playhead' = 0
  /\ seek' = <<>>
  /\ nexts' = 0
  /\ UNCHANGED <<items, config>>
  /\ UNCHANGED flipVars

(***************************************************************************)
(* Navigation: toIndex, next, previous, current.                           *)
(***************************************************************************)
\* The % of JavaScript: the remainder has the sign of the dividend.
JsRem(a, b) == IF a >= 0 THEN a % b ELSE -((-a) % b)

wrapNoAdd(min, max, value) == JsRem(value - min, max - min) + min
wrapClamp(min, max, value) ==
  IF value < min THEN min ELSE IF value >= max THEN max - 1 ELSE value
\* gsap.utils.wrap(min, max, value)
wrap(min, max, value) ==
  JsRem((max - min) + JsRem(value - min, max - min), max - min) + min

shortestGe(index, cur, len) ==
  IF 2 * Abs(index - cur) >= len
  THEN index + (IF index > cur THEN -len ELSE len)
  ELSE index
\* Math.abs(index - curIndex) > length / 2 && (index += index > curIndex ? -length : length)
shortest(index, cur, len) ==
  IF 2 * Abs(index - cur) > len
  THEN index + (IF index > cur THEN -len ELSE len)
  ELSE index

\* time > tl.time(), false when time is NaN
Later(time, now) == time.fin /\ time.v > now

\* The tweenTo that toIndex(index) issues from the current state.  times[k] for
\* k outside the array is undefined, which compares and adds as NaN.
seekOf(index) ==
  LET idx == shortest(index, curIndex, length)
      newIndex == wrap(0, length, idx)
      time == IF newIndex \in 0..(Len(times) - 1) THEN times[newIndex + 1] ELSE NaN
      wrapped == Later(time, playhead) # (idx > curIndex)
  IN  [from     |-> curIndex,
       req      |-> index,
       index    |-> idx,
       newIndex |-> newIndex,
       raw      |-> time,
       at       |-> playhead,
       wrapped  |-> wrapped,
       time     |-> IF wrapped
                    THEN NAdd(time, Fin(duration * (IF idx > curIndex THEN 1 ELSE -1)))
                    ELSE time]

toIndexCall(index, count) ==
  /\ pc = "built"
  /\ curIndex' = seekOf(index).newIndex
  /\ seek' = <<seekOf(index)>>
  /\ nexts' = count
  /\ UNCHANGED <<items, config, pc, widths, xPercents, totalWidth, times, tweens,
                 playhead>>
  /\ UNCHANGED flipVars

\* tl.next = (vars) => toIndex(curIndex + 1, vars)
next ==
  toIndexCall(curIndex + 1, IF nexts \in 0..(MaxNexts - 1) THEN nexts + 1 ELSE -1)

\* tl.previous = (vars) => toIndex(curIndex - 1, vars)
previous == toIndexCall(curIndex - 1, -1)

\* tl.toIndex = (index, vars) => toIndex(index, vars)
toIndex == \E index \in (-length)..(2 * length) : toIndexCall(index, -1)

\* The positions the playhead is moved to: each item's time and its two
\* neighbours, the start and the end of the timeline.
PlayheadPositions ==
  {p \in {0, duration}
         \cup UNION {{times[i].v - 1, times[i].v, times[i].v + 1} :
                       i \in {j \in 1..Len(times) : times[j].fin}} :
     0 <= p /\ p <= duration}

\* The timeline plays, or the caller moves it: the playhead goes anywhere.
play ==
  /\ pc = "built"
  /\ \E p \in PlayheadPositions : p # playhead /\ playhead' = p
  /\ seek' = <<>>
  /\ UNCHANGED <<items, config, pc, widths, xPercents, totalWidth, times, tweens,
                 curIndex, nexts>>
  /\ UNCHANGED flipVars

\* The tweenTo of the last toIndex runs to its end.
seekDone ==
  /\ pc = "built"
  /\ seek # <<>>
  /\ seek[1].time.fin
  /\ duration > 0
  /\ playhead' = IF seek[1].wrapped
                 THEN wrap(0, duration, seek[1].time.v)
                 ELSE IF seek[1].time.v < 0 THEN 0
                 ELSE IF seek[1].time.v > duration THEN duration
                 ELSE seek[1].time.v
  /\ seek' = <<>>
  /\ UNCHANGED <<items, config, pc, widths, xPercents, totalWidth, times, tweens,
                 curIndex, nexts>>
  /\ UNCHANGED flipVars

(***************************************************************************)
(* The inputs.                                                             *)
(***************************************************************************)
\* Items laid out in a row: each starts where the one before it ends.
RECURSIVE offsetLeftOf(_, _)
offsetLeftOf(shapes, i) ==
  IF i = 1 THEN 2000
  ELSE offsetLeftOf(shapes, i - 1) + shapes[i - 1].width + shapes[i - 1].border

Layout(shapes) ==
  [i \in 1..Len(shapes) |->
     [offsetLeft  |-> offsetLeftOf(shapes, i),
      offsetWidth |-> shapes[i].width + shapes[i].border,
      width       |-> shapes[i].width,
      x           |-> shapes[i].x,
      xPercent    |-> shapes[i].xPercent,
      scaleX      |-> shapes[i].scaleX]]

Shapes ==
  [width : {0, 15000}, border : {0, 400}, x : {-5000, 0},
   xPercent : {0, 10}, scaleX : {1, 2}]
Configs == [speed : {0, 2}, paddingRight : {0, 2000}, snap : {0, 5}]

NavShapes ==
  [width : {10000}, border : {0}, x : {-5000, 0}, xPercent : {0}, scaleX : {1}]
NavConfigs == [speed : {0}, paddingRight : {0}, snap : {0}]

InitFlipIdle ==
  /\ rects = <<>>
  /\ offs = <<>>
  /\ flipOf = <<>>
  /\ flips = <<>>

InitLoopIdle ==
  /\ pc = "new"
  /\ widths = <<>>
  /\ xPercents = <<>>
  /\ totalWidth = NaN
  /\ times = <<>>
  /\ tweens = <<>>
  /\ curIndex = 0
  /\ playhead = 0
  /\ seek = <<>>
  /\ nexts = 0

InitBuild ==
  /\ \E n \in 1..MaxItems : \E shapes \in [1..n -> Shapes] : items = Layout(shapes)
  /\ config \in Configs
  /\ InitLoopIdle
  /\ InitFlipIdle

InitNav ==
  /\ \E n \in 1..MaxNavItems :
       \E first \in NavShapes :
         items = Layout([i \in 1..n |->
                           IF i = 1 THEN first ELSE [first EXCEPT !.x = 0]])
  /\ config \in NavConfigs
  /\ InitLoopIdle
  /\ InitFlipIdle

(***************************************************************************)
(* simpleFlip.                                                             *)
(***************************************************************************)
Elements == {"a", "b"}
Positions ==
  {[left |-> 100, top |-> 0], [left |-> 150, top |-> 0], [left |-> 150, top |-> 20]}
Zero == [x |-> 0, y |-> 0]

\* el.getBoundingClientRect(): the layout position moved by the transform.
getBoundingClientRect(el) ==
  [left |-> rects[el].left + offs[el].x, top |-> rects[el].top + offs[el].y]

\* What a timeline renders on target el at progress p (of FlipSteps).
renderAt(t, el, p) ==
  [x |-> flips[t].to[el].x
           + ((flips[t].from[el].x - flips[t].to[el].x) * (FlipSteps - p)) \div FlipSteps,
   y |-> flips[t].to[el].y
           + ((flips[t].from[el].y - flips[t].to[el].y) * (FlipSteps - p)) \div FlipSteps]

forcedNone(elements) == {}
\* el._flip && el._flip.progress(1), for every element of the call
forced(elements) == {flipOf[el] : el \in elements} \ {0}

\* The transforms once the timelines in ts have been put at progress 1.
offsForced(ts) ==
  [el \in Elements |->
     LET hit == {t \in ts : el \in flips[t].targets}
     IN  IF hit = {} THEN offs[el] ELSE flips[SetMax(hit)].to[el]]

deltaSwapped(before, after) ==
  [x |-> after.left - before.left, y |-> after.top - before.top]
\* bounds[i].left - element.getBoundingClientRect().left, and the same for top
delta(before, after) ==
  [x |-> before.left - after.left, y |-> before.top - after.top]

simpleFlip ==
  /\ Len(flips) < MaxFlips
  /\ \E elements \in SUBSET Elements : \E changed \in [Elements -> Positions] :
       LET tl == Len(flips) + 1
           bounds == [el \in elements |-> getBoundingClientRect(el)]
           ended == forced(elements)
           settled == offsForced(ended)
           after == [el \in elements |->
                       [left |-> changed[el].left + settled[el].x,
                        top  |-> changed[el].top + settled[el].y]]
           from == [el \in elements |->
                      [x |-> settled[el].x + delta(bounds[el], after[el]).x,
                       y |-> settled[el].y + delta(bounds[el], after[el]).y]]
       IN  /\ flipOf' = [el \in Elements |-> IF el \in elements THEN tl ELSE flipOf[el]]
           /\ rects' = changed
           /\ offs' = [el \in Elements |->
                         IF el \in elements THEN from[el] ELSE settled[el]]
           /\ flips' = Append(
                [t \in 1..Len(flips) |->
                   IF t \in ended
                   THEN [flips[t] EXCEPT !.before = <<>>, !.after = <<>>,
                                         !.from = flips[t].to,
                                         !.progress = FlipSteps,
                                         !.cut = flips[t].cut
                                                   \/ flips[t].progress < FlipSteps]
                   ELSE [flips[t] EXCEPT !.before = <<>>, !.after = <<>>]],
                [targets  |-> elements,
                 before   |-> bounds,
                 after    |-> after,
                 from     |-> from,
                 to       |-> [el \in elements |-> settled[el]],
                 progress |-> 0,
                 cut      |-> FALSE])
  /\ UNCHANGED loopVars

\* The engine plays a flip timeline one step further.  A tween that has reached
\* its end renders no more, and its start values are dropped.
advance ==
  /\ \E t \in 1..Len(flips) :
       /\ flips[t].progress < FlipSteps
       /\ flips' = [flips EXCEPT ![t].progress = flips[t].progress + 1,
                                 ![t].from = IF flips[t].progress + 1 = FlipSteps
                                             THEN flips[t].to
                                             ELSE flips[t].from]
       /\ offs' = [el \in Elements |->
                     IF el \in flips[t].targets
                     THEN renderAt(t, el, flips[t].progress + 1)
                     ELSE offs[el]]
  /\ UNCHANGED <<rects, flipOf>>
  /\ UNCHANGED loopVars

InitFlip ==
  /\ rects \in [Elements -> Positions]
  /\ offs = [el \in Elements |-> Zero]
  /\ flipOf = [el \in Elements |-> 0]
  /\ flips = <<>>
  /\ items = <<>>
  /\ config = [speed |-> 0, paddingRight |-> 0, snap |-> 0]
  /\ InitLoopIdle

NextBuild == horizontalLoop
NextFlip == simpleFlip \/ advance
SpecFlip == InitFlip /\ [][NextFlip]_vars
NextNav == horizontalLoop \/ next \/ previous \/ toIndex \/ play \/ seekDone

SpecBuild == InitBuild /\ [][NextBuild]_vars
SpecNav == InitNav /\ [][NextNav]_vars

(***************************************************************************)
(* The claims.                                                             *)
(***************************************************************************)
Min(a, b) == IF a <= b THEN a ELSE b
Call == seek[1]
\* Steps around the cycle from the index toIndex started at to the requested
\* one, going up and going down.
StepsForward == (Call.req - Call.from) % length
StepsBackward == (Call.from - Call.req) % length
Forward == Call.index > Call.from
Backward == Call.index < Call.from
Travelled == Abs(Call.index - Call.from)

CurrentInRange ==
  pc = "built" =>
    /\ curIndex \in 0..(length - 1)
    /\ nexts = 0 => curIndex = 0

\* C2: a toIndex with a negative index, made away from the start of the
\* timeline, has landed on the last index.
NegativeIndexReached ==
  /\ pc = "built"
  /\ seek # <<>>
  /\ Call.req < 0
  /\ Call.at > 0
  /\ length >= 3
  /\ curIndex = length - 1

\* C3: after the k-th consecutive next() on a fresh handle current() is
\* k mod length, wherever the playhead is.
NextCycles == (pc = "built" /\ nexts >= 0) => curIndex = nexts % length

\* C3: length calls of next(), the playhead moved in between, are back at 0.
NextFullCycleReached ==
  /\ pc = "built"
  /\ length >= 3
  /\ nexts = length
  /\ curIndex = 0
  /\ playhead > 0

\* C9 as stated: when toIndex changes the index, the modifier is installed and
\* the target shifted by a duration exactly when times[newIndex] is on the
\* wrong side of the playhead (not ahead of it going forward, ahead of it going
\* backward), and the seek target is never behind the playhead going forward
\* nor ahead of it going backward.
SeekNeverAgainstDirection ==
  (seek # <<>> /\ Call.index # Call.from) =>
    LET wrong == IF Forward THEN ~Later(Call.raw, Call.at) ELSE Later(Call.raw, Call.at)
    IN  /\ Call.wrapped <=> wrong
        /\ Call.time = IF wrong
                       THEN NAdd(Call.raw, Fin(IF Forward THEN duration ELSE -duration))
                       ELSE Call.raw
        /\ Call.time.fin
        /\ Forward => Call.time.v >= Call.at
        /\ Backward => Call.time.v <= Call.at

\* C4 as stated, for items of positive width: times has one entry per item,
\* each in [0, tl.duration()).
TimesWithinDuration ==
  (pc = "built" /\ \A i \in 1..length : widths[i] > 0) =>
    /\ Len(times) = length
    /\ \A i \in 1..length :
         times[i].fin /\ 0 <= times[i].v /\ times[i].v < duration

NoNonFiniteInstruction ==
  pc = "built" =>
    \A i \in 1..length :
      /\ tweens[i].set.fin
      /\ tweens[i].toX.fin
      /\ tweens[i].toDur.fin
      /\ tweens[i].fromX.fin
      /\ tweens[i].backX.fin
      /\ tweens[i].backDur.fin

\* curX and distanceToLoop of item i, read back from the arrays the constructor
\* filled and from the measurements.
LoopX(i) == IF xPercents[i].fin THEN Fin((xPercents[i].v * widths[i]) \div 100) ELSE NaN
LoopDistance(i) ==
  NAdd(NSub(NAdd(Fin(items[i].offsetLeft), LoopX(i)), Fin(items[1].offsetLeft)),
       Fin(widths[i] * items[i].scaleX))
\* The part of C10 that is not in question: segment A, and where segment B
\* starts and ends.
SegmentAAndStartOfB(i) ==
  /\ tweens[i].toAt = 0
  /\ tweens[i].toX = snapPercent(NSub(LoopX(i), LoopDistance(i)), widths[i])
  /\ tweens[i].toDur = seconds(LoopDistance(i))
  /\ tweens[i].backAt = seconds(LoopDistance(i))
  /\ tweens[i].fromX =
       snapPercent(NAdd(NSub(LoopX(i), LoopDistance(i)), totalWidth), widths[i])
  /\ tweens[i].backX = xPercents[i]

\* C10 as stated: segment A runs from time 0 for distanceToLoop /
\* pixelsPerSecond; segment B starts then, at the percent offset of
\* curX - distanceToLoop + totalWidth, and returns to xPercents[i] over
\* totalWidth / pixelsPerSecond.
SegmentBOverTotalWidth ==
  pc = "built" =>
    \A i \in 1..length :
      SegmentAAndStartOfB(i) /\ tweens[i].backDur = seconds(totalWidth)

\* C10 as amended: the same, but segment B returns over
\* (totalWidth - distanceToLoop) / pixelsPerSecond.
SegmentBOverRemainder ==
  pc = "built" =>
    \A i \in 1..length :
      /\ SegmentAAndStartOfB(i)
      /\ tweens[i].backDur = seconds(NSub(totalWidth, LoopDistance(i)))

\* C10: a loop of two items or more whose second segment takes time.
SegmentBReached ==
  /\ pc = "built"
  /\ length >= 2
  /\ \E i \in 1..length :
       /\ LoopDistance(i).fin
       /\ LoopDistance(i).v > 0
       /\ tweens[i].backDur.fin
       /\ tweens[i].backDur.v > 0

\* C5: a flip timeline that has not completed is the registered flip of each
\* of its targets, so no element is the target of two flips in progress; and a
\* flip ends at the transform its targets had with every earlier flip at its
\* end, which is none.
OneFlipInProgress ==
  \A t \in 1..Len(flips) : \A el \in flips[t].targets :
    /\ flips[t].progress < FlipSteps => flipOf[el] = t
    /\ flips[t].to[el] = Zero

\* C5: a flip of several elements was forced to its end, before it completed,
\* by a later flip of one of them, which is still in progress.
FlipCutShortReached ==
  \E t \in 1..Len(flips) : \E el \in flips[t].targets :
    /\ flips[t].cut
    /\ flips[t].targets # {el}
    /\ flipOf[el] > t
    /\ flips[flipOf[el]].progress < FlipSteps

\* C6: the animation simpleFlip has just built starts each element at the
\* offset (before.left - after.left, before.top - after.top) from its position
\* after changeFunc, which shows it where it was before, and a completed flip
\* leaves its elements at offset zero.
FlipStartsAtDelta ==
  /\ \A el \in Elements :
       (flipOf[el] # 0 /\ flips[flipOf[el]].progress = FlipSteps) => offs[el] = Zero
  /\ (flips # <<>> /\ flips[Len(flips)].progress = 0) =>
       LET tl == flips[Len(flips)]
       IN  \A el \in tl.targets :
             /\ tl.after[el] = [left |-> rects[el].left, top |-> rects[el].top]
             /\ tl.from[el].x - tl.to[el].x = tl.before[el].left - tl.after[el].left
             /\ tl.from[el].y - tl.to[el].y = tl.before[el].top - tl.after[el].top
             /\ offs[el] = tl.from[el]
             /\ getBoundingClientRect(el) = tl.before[el]

\* C6: an element measured at left 100 was moved to left 150 and starts at x -50.
FlipMinusFiftyReached ==
  /\ flips # <<>>
  /\ flips[Len(flips)].progress = 0
  /\ \E el \in flips[Len(flips)].targets :
       /\ flips[Len(flips)].before[el].left = 100
       /\ flips[Len(flips)].after[el].left = 150
       /\ offs[el].x = -50

====
